---- MODULE Spec2Model ----
(***************************************************************************)
(* A model of the social-network backend: the Neo4j property graph (User,  *)
(* Admin and Post nodes; FOLLOWS, POSTED and LIKES relationships) and the  *)
(* service handlers that read and write it.  Every session.run(...) of the *)
(* services is one auto-commit transaction, hence one atomic step; a       *)
(* handler that awaits several of them is a sequence of steps that other   *)
(* requests interleave with.                                               *)
(***************************************************************************)
EXTENDS Integers, Sequences, FiniteSets, Bags, TLC

\* ------------------------------------------------------------------ bounds
\* Registrations and posts a run explores (guards of the creating handlers),
\* and how far past the feed's LIMIT a bulk-loaded store of SpecFeed goes.
MaxAccounts == 2
MaxPosts == 2
MaxExtra == 2
MaxClock == 2

\* Requests in flight at the same time.
Procs == {"r1", "r2"}

Usernames == {"alice", "bob"}
Passwords == {"secret1", "secret2"}
Emails == {"a@example.com"}
Salts == {"salt1"}
Contents == {"hello"}
Labels == {"User", "Admin"}

Null == [null |-> TRUE]
Idle == [op |-> "idle"]
NoResp == [op |-> "none"]
NoRequest == [route |-> "none"]

VARIABLES
  constraints,  \* whether the uniqueness constraints of NEO4J_QUERIES.md were installed
  accounts,     \* the User and Admin nodes
  posts,        \* the Post nodes
  follows,      \* bag of <<source id, target id>>: FOLLOWS relationships
  posted,       \* bag of <<user id, post id>>: POSTED relationships
  likes,        \* bag of <<user id, post id>>: LIKES relationships
  now,          \* the store's clock, read by datetime()
  pc,           \* per request slot: where an in-flight handler stands
  resp,         \* the response the last finished step sent, NoResp after an inner step
  request,      \* the request at the guards: its route and its bearer token
  sessions      \* the number of driver sessions that are open

vars == <<constraints, accounts, posts, follows, posted, likes, now, pc, resp, request, sessions>>
store == <<accounts, posts, follows, posted, likes>>
graph == <<posts, follows, posted, likes, now>>

\* ------------------------------------------------------------ the store
\* this.driver.session(): one more session is open.
driver_session(open) ==
  open + 1

\* session.close(): one fewer.
session_close(open) ==
  open - 1

\* Finally as it would be if close() were the last statement of the try
\* block: an exception leaves the session open.
FinallySkippedOnThrow(open) ==
  open

\* try { ... throw ... } finally { await session.close() }: the exception
\* leaves through the finally block.
Finally(open) ==
  session_close(open)

\* randomUUID(): an id no node of the store carries.
randomUUID(kind, nodes) ==
  <<kind, Cardinality(nodes) + 1>>

\* MatchUsername as it would be with the label left out of the pattern.
MatchUsernameAnyLabel(label, username) ==
  {a \in accounts : a.username = username}

\* MATCH (n:<label> {username: $username})
MatchUsername(label, username) ==
  {a \in accounts : a.label = label /\ a.username = username}

\* MatchUser as it would be with the label left out of the pattern.
MatchAnyAccount(id) ==
  {a \in accounts : a.id = id}

\* MATCH (u:User {id: $id})
MatchUser(id) ==
  {a \in accounts : a.label = "User" /\ a.id = id}

\* bcrypt.hash(password, 10): a salted one-way digest; the salt is kept in the hash.
bcryptHash(password, salt) ==
  [salt |-> salt, digest |-> <<"bcrypt", salt, password>>]

\* bcrypt.compare(password, hash): re-hash with the hash's salt and compare.
bcryptCompare(password, hashed) ==
  bcryptHash(password, hashed.salt) = hashed

\* WithoutPassword as it would be if the node were returned whole.
WithPassword(a) ==
  [id |-> a.id, username |-> a.username, email |-> a.email, password |-> a.password]

\* const { password, ...userWithoutPassword } = userNode
WithoutPassword(a) ==
  [id |-> a.id, username |-> a.username, email |-> a.email]

Response(op, args, status, body) ==
  [op |-> op, args |-> args, status |-> status, body |-> body]

InFlight(op) ==
  {p \in Procs : pc[p].op = op}

\* ------------------------------------------------------- store failures
\* The handlers, by the name their responses carry.
Operations ==
  {"create", "login", "followUser", "unfollowUser", "createPost", "likePost",
   "unlikePost", "getUserPosts", "getFeed", "getPostById", "findById",
   "getFollowers", "getFollowing"}

\* await session.run(...) rejects in a handler's first statement: the query
\* is refused or the connection is lost.  The statement has no effect, no
\* handler catches the error, and it leaves through the finally block to
\* the framework, which answers 500.
runRejects(p, op) ==
  /\ pc[p] = Idle
  /\ resp' = Response(op, Null, "StoreError", Null)
  /\ sessions' = Finally(driver_session(sessions))
  /\ UNCHANGED <<constraints, request, store, now, pc>>

\* await session.run(...) rejects in a later statement of a handler in
\* flight: create's CREATE, followUser's MERGE, validateUser's second lookup
\* (which runs in a session of its own).
runRejectsInFlight(p) ==
  /\ pc[p] # Idle
  /\ resp' = Response(pc[p].op, pc[p], "StoreError", Null)
  /\ sessions' = IF pc[p].op = "login" THEN Finally(driver_session(sessions))
                   ELSE Finally(sessions)
  /\ pc' = [pc EXCEPT ![p] = Idle]
  /\ UNCHANGED <<constraints, request, store, now>>

\* ------------------------------------------- UsersService / AdminsService
\* createExists as it would be with the node written before the check's
\* verdict is acted on.
createExistsWritesFirst(p, label, username, email, password) ==
  /\ pc[p] = Idle
  /\ Cardinality(accounts) + Cardinality(InFlight("create")) < MaxAccounts
  /\ LET dto == [username |-> username, email |-> email, password |-> password]
     IN /\ accounts' = accounts \cup {[label |-> label, id |-> randomUUID("acct", accounts),
                                        username |-> username, email |-> email,
                                        password |-> bcryptHash(password, "salt1")]}
        /\ pc' = [pc EXCEPT ![p] = [op |-> "create", label |-> label, dto |-> dto]]
        /\ resp' = NoResp
        /\ sessions' = driver_session(sessions)
  /\ UNCHANGED <<constraints, request, graph>>

\* create, first statement: the existence check, and the Conflict it throws.
createExists(p, label, username, email, password) ==
  /\ pc[p] = Idle
  /\ LET dto == [username |-> username, email |-> email, password |-> password]
     IN IF MatchUsername(label, username) # {}
          THEN /\ resp' = Response("create", [label |-> label, dto |-> dto], "Conflict",
                                 IF label = "User" THEN "Username already exists"
                                 ELSE "Admin username already exists")
               /\ pc' = pc
               /\ sessions' = Finally(driver_session(sessions))
          ELSE /\ Cardinality(accounts) + Cardinality(InFlight("create")) < MaxAccounts
               /\ pc' = [pc EXCEPT ![p] = [op |-> "create", label |-> label, dto |-> dto]]
               /\ resp' = NoResp
               /\ sessions' = driver_session(sessions)
  /\ UNCHANGED <<constraints, request, store, now>>

\* The store's verdict on CREATE (n:<label> {username: ...}): with the
\* uniqueness constraint installed a second node of that username is refused.
ConstraintRefuses(label, username) ==
  constraints /\ MatchUsername(label, username) # {}

\* create, after the check: hash the password, CREATE the node, return it
\* without its password.  A request whose login is in flight sees the store
\* change under it (raced).
createInsert(p) ==
  /\ pc[p].op = "create"
  /\ LET label == pc[p].label
         dto == pc[p].dto
         args == [label |-> label, dto |-> dto]
     IN IF ConstraintRefuses(label, dto.username)
          THEN /\ resp' = Response("create", args, "StoreError", Null)
               /\ pc' = [pc EXCEPT ![p] = Idle]
               /\ sessions' = Finally(sessions)
               /\ UNCHANGED accounts
          ELSE \E salt \in Salts :
                 LET node == [label |-> label,
                              id |-> randomUUID("acct", accounts),
                              username |-> dto.username,
                              email |-> dto.email,
                              password |-> bcryptHash(dto.password, salt)]
                 IN /\ accounts' = accounts \cup {node}
                    /\ resp' = Response("create", args, "Created", WithoutPassword(node))
                    /\ pc' = [q \in Procs |->
                               IF q = p THEN Idle
                               ELSE IF pc[q].op = "login" THEN [pc[q] EXCEPT !.raced = TRUE]
                               ELSE pc[q]]
                    /\ sessions' = session_close(sessions)
  /\ UNCHANGED <<constraints, request, graph>>

\* UsersService.create
UsersService_create(p) ==
  \/ \E u \in Usernames, e \in Emails, w \in Passwords :
       createExists(p, "User", u, e, w)
  \/ pc[p].op = "create" /\ pc[p].label = "User" /\ createInsert(p)

\* AdminsService.create
AdminsService_create(p) ==
  \/ \E u \in Usernames, e \in Emails, w \in Passwords :
       createExists(p, "Admin", u, e, w)
  \/ pc[p].op = "create" /\ pc[p].label = "Admin" /\ createInsert(p)

\* findByUsername as it would be if the query matched nodes of any label.
findByUsernameAnyLabel(label, username) ==
  IF {a \in accounts : a.username = username} = {} THEN {Null}
  ELSE {a \in accounts : a.username = username}

\* findByUsername: records[0] of the match, or null.  With several matching
\* nodes the store decides which comes first.
findByUsername(label, username) ==
  IF MatchUsername(label, username) = {} THEN {Null} ELSE MatchUsername(label, username)

\* ------------------------------------------------------------ AuthService
\* jwtService.sign(payload)
\* signOptions.expiresIn: JWT_EXPIRATION, by default '1d'.  The clock counts
\* half days.
JwtExpiration == 2

\* A token over payload, issued at time t under a secret: iat and exp are
\* claims the signing adds.
Jwt(payload, t, secret) ==
  [payload |-> payload, iat |-> t, exp |-> t + JwtExpiration, secret |-> secret]

jwtSign(payload) ==
  Jwt(payload, now, "JWT_SECRET")

\* LoginResponse as it would be if the exception named the failing case.
LoginResponseTellsWhy(dto, status, body, raced) ==
  [op |-> "login", args |-> dto, status |-> status,
   body |-> IF status = "Unauthorized" /\ {a \in accounts : a.username = dto.username} = {}
              THEN "Unknown username" ELSE body,
   raced |-> raced]

\* login's response.  raced is no part of it: it records that an account
\* was created between the request's two lookups.
LoginResponse(dto, status, body, raced) ==
  [op |-> "login", args |-> dto, status |-> status, body |-> body, raced |-> raced]

\* login's body for an account validateUser accepted.
LoginBody(account, role) ==
  [access_token |-> jwtSign([username |-> account.username,
                             sub |-> account.id, role |-> role]),
   user |-> [id |-> account.id, username |-> account.username,
             email |-> account.email, role |-> role]]

\* validateUser's verdict on the record a lookup returned.
Verifies(account, password) ==
  account # Null /\ bcryptCompare(password, account.password)

\* validateUser, first lookup: among the Users.
validateUser_user(p, username, password) ==
  /\ pc[p] = Idle
  /\ \E user \in findByUsername("User", username) :
       LET dto == [username |-> username, password |-> password]
       IN IF Verifies(user, password)
            THEN /\ resp' = LoginResponse(dto, "Ok", LoginBody(user, "user"), FALSE)
                 /\ pc' = pc
            ELSE /\ pc' = [pc EXCEPT ![p] = [op |-> "login", dto |-> dto, raced |-> FALSE]]
                 /\ resp' = NoResp
  /\ sessions' = session_close(driver_session(sessions))
  /\ UNCHANGED <<constraints, request, store, now>>

\* validateUser, second lookup: among the Admins; login throws
\* UnauthorizedException when neither verified.
validateUser_admin(p) ==
  /\ pc[p].op = "login"
  /\ \E admin \in findByUsername("Admin", pc[p].dto.username) :
       IF Verifies(admin, pc[p].dto.password)
         THEN resp' = LoginResponse(pc[p].dto, "Ok", LoginBody(admin, "admin"), pc[p].raced)
         ELSE resp' = LoginResponse(pc[p].dto, "Unauthorized", "Invalid credentials",
                                    pc[p].raced)
  /\ pc' = [pc EXCEPT ![p] = Idle]
  /\ sessions' = session_close(driver_session(sessions))
  /\ UNCHANGED <<constraints, request, store, now>>

\* AuthService.login
login(p) ==
  \/ \E u \in Usernames, w \in Passwords :
       validateUser_user(p, u, w)
  \/ validateUser_admin(p)

\* ------------------------------------------------------- relationships
\* Merge as it would be with CREATE written for MERGE.
MergeAlwaysCreates(rels, e) ==
  rels (+) SetToBag({e})

\* MERGE (a)-[r:T]->(b): create the relationship unless one is there.
Merge(rels, e) ==
  IF BagIn(e, rels) THEN rels ELSE rels (+) SetToBag({e})

\* Create as it would be with the relationship clause left out.
CreateNothing(rels, e) ==
  rels

\* CREATE (a)-[:T]->(b)
Create(rels, e) ==
  rels (+) SetToBag({e})

\* Delete as it would be with the ids left out of the pattern.
DeleteEvery(rels, e) ==
  EmptyBag

\* Delete as it would be with a pattern that matches nothing.
DeleteNothing(rels, e) ==
  rels

\* MATCH (a)-[r:T]->(b) DELETE r: every matching relationship goes.
Delete(rels, e) ==
  [x \in BagToSet(rels) \ {e} |-> rels[x]]

Users ==
  {a \in accounts : a.label = "User"}

RECURSIVE Sum(_, _)
Sum(f, S) ==
  IF S = {} THEN 0
  ELSE LET x == CHOOSE y \in S : TRUE
       IN f[x] + Sum(f, S \ {x})

\* datetime(): the clock has not moved since its last reading, or it has.
datetime(dt) ==
  now + dt

\* ------------------------------------------------- UsersService (graph)
\* followUser_check as it would be without the self-follow guard.
followUser_checkNoSelfGuard(p, userId, targetUserId) ==
  /\ pc[p] = Idle
  /\ LET args == [userId |-> userId, targetUserId |-> targetUserId]
     IN IF MatchUser(userId) = {} \/ MatchUser(targetUserId) = {}
          THEN /\ resp' = Response("followUser", args, "NotFound", "One or both users not found")
               /\ pc' = pc
               /\ sessions' = Finally(driver_session(sessions))
          ELSE /\ pc' = [pc EXCEPT ![p] = [op |-> "followUser", args |-> args]]
               /\ resp' = NoResp
               /\ sessions' = driver_session(sessions)
  /\ UNCHANGED <<constraints, request, store, now>>

\* followUser_check as it would be with the existence check made first.
followUser_checkExistsFirst(p, userId, targetUserId) ==
  /\ pc[p] = Idle
  /\ LET args == [userId |-> userId, targetUserId |-> targetUserId]
     IN IF MatchUser(userId) = {} \/ MatchUser(targetUserId) = {}
          THEN /\ resp' = Response("followUser", args, "NotFound", "One or both users not found")
               /\ pc' = pc
               /\ sessions' = Finally(driver_session(sessions))
          ELSE IF userId = targetUserId
            THEN /\ resp' = Response("followUser", args, "Conflict", "Cannot follow yourself")
                 /\ pc' = pc
                 /\ sessions' = Finally(driver_session(sessions))
            ELSE /\ pc' = [pc EXCEPT ![p] = [op |-> "followUser", args |-> args]]
                 /\ resp' = NoResp
                 /\ sessions' = driver_session(sessions)
  /\ UNCHANGED <<constraints, request, store, now>>

\* followUser up to its first statement: the self-follow guard, then the
\* check that both users exist.
followUser_check(p, userId, targetUserId) ==
  /\ pc[p] = Idle
  /\ LET args == [userId |-> userId, targetUserId |-> targetUserId]
     IN IF userId = targetUserId
          THEN /\ resp' = Response("followUser", args, "Conflict", "Cannot follow yourself")
               /\ pc' = pc
               /\ sessions' = sessions
          ELSE IF MatchUser(userId) = {} \/ MatchUser(targetUserId) = {}
            THEN /\ resp' = Response("followUser", args, "NotFound", "One or both users not found")
                 /\ pc' = pc
                 /\ sessions' = Finally(driver_session(sessions))
            ELSE /\ pc' = [pc EXCEPT ![p] = [op |-> "followUser", args |-> args]]
                 /\ resp' = NoResp
                 /\ sessions' = driver_session(sessions)
  /\ UNCHANGED <<constraints, request, store, now>>

\* followUser's second statement: MATCH both users, MERGE the relationship.
followUser_merge(p) ==
  /\ pc[p].op = "followUser"
  /\ LET args == pc[p].args
     IN /\ follows' = IF MatchUser(args.userId) # {} /\ MatchUser(args.targetUserId) # {}
                        THEN Merge(follows, <<args.userId, args.targetUserId>>)
                        ELSE follows
        /\ resp' = Response("followUser", args, "Ack", "Successfully followed user")
  /\ pc' = [pc EXCEPT ![p] = Idle]
  /\ sessions' = session_close(sessions)
  /\ UNCHANGED <<constraints, request, accounts, posts, posted, likes, now>>

\* UsersService.followUser
followUser(p, ids) ==
  \/ \E userId \in ids, targetUserId \in ids : followUser_check(p, userId, targetUserId)
  \/ followUser_merge(p)

\* UsersService.unfollowUser
unfollowUser(p, userId, targetUserId) ==
  /\ pc[p] = Idle
  /\ follows' = Delete(follows, <<userId, targetUserId>>)
  /\ resp' = Response("unfollowUser", [userId |-> userId, targetUserId |-> targetUserId],
                      "Ack", "Successfully unfollowed user")
  /\ sessions' = session_close(driver_session(sessions))
  /\ UNCHANGED <<constraints, request, accounts, posts, posted, likes, now, pc>>

\* --------------------------------------------------------- PostsService
\* PostsService.createPost: one statement creates the node and its POSTED
\* relationship for every matching user; no row means NotFound.
createPost(p, userId, content, dt) ==
  /\ pc[p] = Idle
  /\ LET args == [userId |-> userId, content |-> content]
         post == [id |-> randomUUID("post", posts), content |-> content,
                  createdAt |-> datetime(dt)]
     IN IF MatchUser(userId) = {}
          THEN /\ resp' = Response("createPost", args, "NotFound", "User not found")
               /\ UNCHANGED <<posts, posted, now>>
               /\ sessions' = Finally(driver_session(sessions))
          ELSE /\ Cardinality(posts) < MaxPosts
               /\ posts' = posts \cup {post}
               /\ posted' = Create(posted, <<userId, post.id>>)
               /\ now' = post.createdAt
               /\ resp' = Response("createPost", args, "Created",
                                   [id |-> post.id, content |-> post.content,
                                    createdAt |-> post.createdAt,
                                    username |-> (CHOOSE u \in MatchUser(userId) : TRUE).username])
               /\ sessions' = session_close(driver_session(sessions))
  /\ UNCHANGED <<constraints, request, accounts, follows, likes, pc>>

\* MatchPost as it would be with the id left out of the pattern.
MatchAnyPost(postId) ==
  posts

\* MATCH (p:Post {id: $postId})
MatchPost(postId) ==
  {q \in posts : q.id = postId}

\* PostsService.likePost
likePost(p, userId, postId) ==
  /\ pc[p] = Idle
  /\ LET args == [userId |-> userId, postId |-> postId]
     IN IF MatchUser(userId) = {} \/ MatchPost(postId) = {}
          THEN /\ resp' = Response("likePost", args, "NotFound", "User or Post not found")
               /\ sessions' = Finally(driver_session(sessions))
               /\ UNCHANGED likes
          ELSE /\ likes' = Merge(likes, <<userId, postId>>)
               /\ resp' = Response("likePost", args, "Ack", "Post liked successfully")
               /\ sessions' = session_close(driver_session(sessions))
  /\ UNCHANGED <<constraints, request, accounts, posts, follows, posted, now, pc>>

\* PostsService.unlikePost
unlikePost(p, userId, postId) ==
  /\ pc[p] = Idle
  /\ likes' = Delete(likes, <<userId, postId>>)
  /\ resp' = Response("unlikePost", [userId |-> userId, postId |-> postId],
                      "Ack", "Post unliked successfully")
  /\ sessions' = session_close(driver_session(sessions))
  /\ UNCHANGED <<constraints, request, accounts, posts, follows, posted, now, pc>>

\* Likers as it would be with the liker not tied to the post, (:Post)<-[:LIKES]-(liker).
LikersOfAnyPost(post) ==
  Sum([u \in Users |-> Sum([q \in posts |-> CopiesIn(<<u.id, q.id>>, likes)], posts)], Users)

\* OPTIONAL MATCH (p)<-[:LIKES]-(liker:User) ... count(liker)
Likers(post) ==
  Sum([u \in Users |-> CopiesIn(<<u.id, post.id>>, likes)], Users)

\* PostedMatches as it would be with the id left out of the pattern.
PostedMatchesAnyAuthor(userId, post, username) ==
  Sum([u \in Users |-> IF u.username = username
                         THEN CopiesIn(<<u.id, post.id>>, posted) ELSE 0], Users)

\* MATCH (u:User {id: $userId})-[:POSTED]->(p:Post): the matches that carry
\* username as u.username.
PostedMatches(userId, post, username) ==
  Sum([u \in Users |-> IF u.id = userId /\ u.username = username
                         THEN CopiesIn(<<u.id, post.id>>, posted) ELSE 0], Users)

\* FeedMatches as it would be with a variable-length hop, -[:FOLLOWS*1..2]->.
FeedMatchesTransitive(userId, post, username) ==
  IF MatchUser(userId) = {} THEN 0
  ELSE Sum([f \in Users |->
              IF f.username = username
                THEN (CopiesIn(<<userId, f.id>>, follows)
                      + Sum([g \in Users |-> CopiesIn(<<userId, g.id>>, follows)
                                             * CopiesIn(<<g.id, f.id>>, follows)], Users))
                     * CopiesIn(<<f.id, post.id>>, posted)
                ELSE 0], Users)

\* FeedMatches as it would be with the FOLLOWS arrow reversed.
FeedMatchesReversed(userId, post, username) ==
  IF MatchUser(userId) = {} THEN 0
  ELSE Sum([f \in Users |-> IF f.username = username
                              THEN CopiesIn(<<f.id, userId>>, follows)
                                   * CopiesIn(<<f.id, post.id>>, posted)
                              ELSE 0], Users)

\* MATCH (u:User {id: $userId})-[:FOLLOWS]->(followed:User)-[:POSTED]->(p:Post):
\* the matches that carry username as followed.username.
FeedMatches(userId, post, username) ==
  IF MatchUser(userId) = {} THEN 0
  ELSE Sum([f \in Users |-> IF f.username = username
                              THEN CopiesIn(<<userId, f.id>>, follows)
                                   * CopiesIn(<<f.id, post.id>>, posted)
                              ELSE 0], Users)

\* AuthorMatches as it would be with the id left out of the pattern.
AuthorMatchesAnyPost(postId, post, username) ==
  Sum([u \in Users |-> IF u.username = username
                         THEN CopiesIn(<<u.id, post.id>>, posted) ELSE 0], Users)

\* MATCH (u:User)-[:POSTED]->(p:Post {id: $postId})
AuthorMatches(postId, post, username) ==
  IF post.id # postId THEN 0
  ELSE Sum([u \in Users |-> IF u.username = username
                              THEN CopiesIn(<<u.id, post.id>>, posted) ELSE 0], Users)

\* WITH p, username, count(liker) as likesCount: one row per (p, username)
\* with a match; every match contributes the post's likers once.
Rows(matches) ==
  {[p |-> x[1], username |-> x[2], likesCount |-> matches[x] * Likers(x[1])] :
     x \in {y \in DOMAIN matches : matches[y] > 0}}

\* The (p, username) pairs a query can match.
Candidates == posts \X {u.username : u \in Users}

\* ORDER BY p.createdAt DESC.  Rows of equal createdAt come in the store's
\* own order, taken here to follow the node ids upwards or downwards.
TieOrders == {"asc", "desc"}

\* Precedes as it would be with ORDER BY p.createdAt ASC.
PrecedesOldestFirst(r, s, tie) ==
  \/ r.p.createdAt < s.p.createdAt
  \/ /\ r.p.createdAt = s.p.createdAt
     /\ IF tie = "asc" THEN r.p.id[2] <= s.p.id[2] ELSE r.p.id[2] >= s.p.id[2]

Precedes(r, s, tie) ==
  \/ r.p.createdAt > s.p.createdAt
  \/ /\ r.p.createdAt = s.p.createdAt
     /\ IF tie = "asc" THEN r.p.id[2] <= s.p.id[2] ELSE r.p.id[2] >= s.p.id[2]

\* The row at place i is the one that i rows (itself among them) precede.
OrderByCreatedAtDesc(rows, tie) ==
  LET placed == {<<Cardinality({s \in rows : Precedes(s, r, tie)}), r>> : r \in rows}
  IN [i \in 1..Cardinality(rows) |-> (CHOOSE x \in placed : x[1] = i)[2]]

\* LIMIT 50
FeedLimit == 50

\* Limit as it would be if it kept the last n rows.
LimitKeepsLast(seq, n) ==
  SubSeq(seq, IF Len(seq) < n THEN 1 ELSE Len(seq) - n + 1, Len(seq))

Limit(seq, n) ==
  SubSeq(seq, 1, IF Len(seq) < n THEN Len(seq) ELSE n)

\* records.map(record => ({...p.properties, username, likesCount}))
PostView(row) ==
  [id |-> row.p.id, content |-> row.p.content, createdAt |-> row.p.createdAt,
   username |-> row.username, likesCount |-> row.likesCount]

PostViews(seq) ==
  [i \in 1..Len(seq) |-> PostView(seq[i])]

UserPostsQuery(userId, tie) ==
  LET M == [x \in Candidates |-> PostedMatches(userId, x[1], x[2])]
  IN OrderByCreatedAtDesc(Rows(M), tie)

FeedQuery(userId, tie) ==
  LET M == [x \in Candidates |-> FeedMatches(userId, x[1], x[2])]
  IN Limit(OrderByCreatedAtDesc(Rows(M), tie), FeedLimit)

PostByIdQuery(postId, tie) ==
  LET M == [x \in Candidates |-> AuthorMatches(postId, x[1], x[2])]
  IN OrderByCreatedAtDesc(Rows(M), tie)

\* PostsService.getUserPosts
getUserPosts(p, userId, tie) ==
  /\ pc[p] = Idle
  /\ resp' = Response("getUserPosts", [userId |-> userId], "Ok",
                      PostViews(UserPostsQuery(userId, tie)))
  /\ sessions' = session_close(driver_session(sessions))
  /\ UNCHANGED <<constraints, request, store, now, pc>>

\* PostsService.getFeed
getFeed(p, userId, tie) ==
  /\ pc[p] = Idle
  /\ resp' = Response("getFeed", [userId |-> userId], "Ok",
                      PostViews(FeedQuery(userId, tie)))
  /\ sessions' = session_close(driver_session(sessions))
  /\ UNCHANGED <<constraints, request, store, now, pc>>

\* PostsService.getPostById: records[0], or NotFound when there is none.
getPostById(p, postId, tie) ==
  /\ pc[p] = Idle
  /\ LET records == PostViews(PostByIdQuery(postId, tie))
     IN resp' = IF Len(records) = 0
                  THEN Response("getPostById", [postId |-> postId], "NotFound", "Post not found")
                  ELSE Response("getPostById", [postId |-> postId], "Ok", records[1])
  /\ sessions' = IF Len(PostViews(PostByIdQuery(postId, tie))) = 0
                   THEN Finally(driver_session(sessions))
                   ELSE session_close(driver_session(sessions))
  /\ UNCHANGED <<constraints, request, store, now, pc>>

\* UsersService.findById / AdminsService.findById: records[0] without its
\* password, or null.
findById(p, label, id) ==
  /\ pc[p] = Idle
  /\ LET records == {a \in accounts : a.label = label /\ a.id = id}
     IN \E body \in IF records = {} THEN {Null} ELSE {WithoutPassword(a) : a \in records} :
          resp' = Response("findById", [label |-> label, id |-> id], "Ok", body)
  /\ sessions' = session_close(driver_session(sessions))
  /\ UNCHANGED <<constraints, request, store, now, pc>>

\* RETURN follower.id as id, follower.username as username, follower.email
\* as email: one row for every match, in the store's order (kept as a bag).
\* edge[u] is the relationship a match has with the user node u.
ListRows(edge) ==
  LET copies(x) == Sum([u \in Users |-> IF WithoutPassword(u) = x
                                          THEN CopiesIn(edge[u], follows) ELSE 0], Users)
  IN [r \in {x \in {WithoutPassword(u) : u \in Users} : copies(x) > 0} |-> copies(r)]

\* FollowersQuery as it would be with the FOLLOWS arrow reversed.
FollowersQueryReversed(userId) ==
  IF MatchUser(userId) = {} THEN EmptyBag
  ELSE ListRows([u \in Users |-> <<userId, u.id>>])

\* MATCH (follower:User)-[:FOLLOWS]->(u:User {id: $userId})
FollowersQuery(userId) ==
  IF MatchUser(userId) = {} THEN EmptyBag
  ELSE ListRows([u \in Users |-> <<u.id, userId>>])

\* MATCH (u:User {id: $userId})-[:FOLLOWS]->(following:User)
FollowingQuery(userId) ==
  IF MatchUser(userId) = {} THEN EmptyBag
  ELSE ListRows([u \in Users |-> <<userId, u.id>>])

\* UsersService.getFollowers
getFollowers(p, userId) ==
  /\ pc[p] = Idle
  /\ resp' = Response("getFollowers", [userId |-> userId], "Ok", FollowersQuery(userId))
  /\ sessions' = session_close(driver_session(sessions))
  /\ UNCHANGED <<constraints, request, store, now, pc>>

\* UsersService.getFollowing
getFollowing(p, userId) ==
  /\ pc[p] = Idle
  /\ resp' = Response("getFollowing", [userId |-> userId], "Ok", FollowingQuery(userId))
  /\ sessions' = session_close(driver_session(sessions))
  /\ UNCHANGED <<constraints, request, store, now, pc>>

\* ------------------------------------------------------ tokens and guards
\* A request without an Authorization header, one whose bearer token does
\* not parse, and the verdict on a token that does not verify.
NoToken == [absent |-> TRUE]
Malformed == [malformed |-> TRUE]
Invalid == [invalid |-> TRUE]

\* jwt verification with ignoreExpiration: true.
jwtVerifyIgnoringExpiration(token, t) ==
  IF token \in {NoToken, Malformed} THEN Invalid
  ELSE IF token.secret # "JWT_SECRET" THEN Invalid
  ELSE token.payload

\* The strategy's verification of the bearer token at time t, under
\* secretOrKey JWT_SECRET and ignoreExpiration: false.
jwtVerify(token, t) ==
  IF token \in {NoToken, Malformed} THEN Invalid
  ELSE IF token.secret # "JWT_SECRET" THEN Invalid
  ELSE IF t >= token.exp THEN Invalid
  ELSE token.payload

\* validate as it would be if it gave every caller the role user.
validateAsUser(payload) ==
  [userId |-> payload.sub, username |-> payload.username, role |-> "user"]

\* JwtStrategy.validate
validate(payload) ==
  [userId |-> payload.sub, username |-> payload.username, role |-> payload.role]

\* JwtAuthGuard: request.user, or null when the token does not verify.
JwtAuthGuard(token) ==
  IF jwtVerify(token, now) = Invalid THEN Null ELSE validate(jwtVerify(token, now))

\* The routes of PostsController, AdminsController and UsersController.
PostsRoutes ==
  {"POST /posts", "POST /posts/:postId/like", "POST /posts/:postId/unlike",
   "GET /posts/feed", "GET /posts/user/:userId", "GET /posts/:postId"}

AdminsRoutes == {"GET /admins/profile"}

UsersRoutes == {"GET /users/profile", "GET /users/followers", "GET /users/following"}

Routes == PostsRoutes \cup AdminsRoutes \cup UsersRoutes

\* UsersController's two routes that write.
FollowRoutes == {"POST /users/follow/:userId", "POST /users/unfollow/:userId"}

\* Roles as it would be with @Roles('user') on the whole PostsController.
RolesOnEveryPostsRoute ==
  [route \in PostsRoutes \cup AdminsRoutes |->
     IF route = "GET /admins/profile" THEN {"admin"} ELSE {"user"}]

\* @Roles(...) on the handlers that carry it.
Roles ==
  [route \in {"POST /posts", "POST /posts/:postId/like", "POST /posts/:postId/unlike",
              "GET /posts/feed", "GET /admins/profile"} |->
     IF route = "GET /admins/profile" THEN {"admin"} ELSE {"user"}]

\* UseGuards as it would be with the two guards in the other order.
UseGuardsRolesFirst(route) ==
  IF route \in UsersRoutes \cup FollowRoutes THEN <<"JwtAuthGuard">> ELSE <<"RolesGuard", "JwtAuthGuard">>

\* UseGuards as it would be with no guard on the two post reads.
UseGuardsPublicReads(route) ==
  IF route \in {"GET /posts/user/:userId", "GET /posts/:postId"} THEN <<>>
  ELSE IF route \in UsersRoutes \cup FollowRoutes THEN <<"JwtAuthGuard">> ELSE <<"JwtAuthGuard", "RolesGuard">>

\* @UseGuards(...) on the controller of the route.
UseGuards(route) ==
  IF route \in UsersRoutes \cup FollowRoutes THEN <<"JwtAuthGuard">> ELSE <<"JwtAuthGuard", "RolesGuard">>

\* RolesGuard as it would be if it let every authenticated caller through.
RolesGuardAdmitsAll(route, user) ==
  TRUE

\* RolesGuard.canActivate, given request.user.
RolesGuard(route, user) ==
  route \notin DOMAIN Roles \/ user.role \in Roles[route]

\* The guards of a route run in their order; the first to refuse ends the
\* request.  RolesGuard on a request without a user fails on user.role.
RECURSIVE canActivate(_, _, _, _)
canActivate(guards, route, token, user) ==
  IF guards = <<>> THEN [status |-> "Pass", user |-> user]
  ELSE IF Head(guards) = "JwtAuthGuard"
    THEN IF JwtAuthGuard(token) = Null
           THEN [status |-> "Unauthorized", user |-> Null]
           ELSE canActivate(Tail(guards), route, token, JwtAuthGuard(token))
    ELSE IF route \in DOMAIN Roles /\ user = Null
           THEN [status |-> "InternalServerError", user |-> Null]
           ELSE IF RolesGuard(route, user)
             THEN canActivate(Tail(guards), route, token, user)
             ELSE [status |-> "Forbidden", user |-> user]

\* Handler as it would be if the writing routes took the actor from the
\* route's :userId parameter and not from the token.
HandlerActsForParameter(p, route, user, userId, postId, content) ==
  \/ route = "POST /posts" /\ createPost(p, userId, content, 0)
  \/ route = "POST /posts/:postId/like" /\ likePost(p, userId, postId)
  \/ route = "POST /posts/:postId/unlike" /\ unlikePost(p, userId, postId)
  \/ route = "GET /posts/feed" /\ getFeed(p, user.userId, "asc")
  \/ route = "GET /posts/user/:userId" /\ getUserPosts(p, userId, "asc")
  \/ route = "GET /posts/:postId" /\ getPostById(p, postId, "asc")
  \/ route = "GET /admins/profile" /\ findById(p, "Admin", user.userId)
  \/ route = "GET /users/profile" /\ findById(p, "User", user.userId)
  \/ route = "GET /users/followers" /\ getFollowers(p, user.userId)
  \/ route = "GET /users/following" /\ getFollowing(p, user.userId)
  \/ route = "POST /users/follow/:userId" /\ followUser_check(p, userId, user.userId)
  \/ route = "POST /users/unfollow/:userId" /\ unfollowUser(p, userId, user.userId)

\* The handler of a route, called with @CurrentUser() user and the route's
\* parameters.
Handler(p, route, user, userId, postId, content) ==
  \/ route = "POST /posts" /\ createPost(p, user.userId, content, 0)
  \/ route = "POST /posts/:postId/like" /\ likePost(p, user.userId, postId)
  \/ route = "POST /posts/:postId/unlike" /\ unlikePost(p, user.userId, postId)
  \/ route = "GET /posts/feed" /\ getFeed(p, user.userId, "asc")
  \/ route = "GET /posts/user/:userId" /\ getUserPosts(p, userId, "asc")
  \/ route = "GET /posts/:postId" /\ getPostById(p, postId, "asc")
  \/ route = "GET /admins/profile" /\ findById(p, "Admin", user.userId)
  \/ route = "GET /users/profile" /\ findById(p, "User", user.userId)
  \/ route = "GET /users/followers" /\ getFollowers(p, user.userId)
  \/ route = "GET /users/following" /\ getFollowing(p, user.userId)
  \/ route = "POST /users/follow/:userId" /\ followUser_check(p, user.userId, userId)
  \/ route = "POST /users/unfollow/:userId" /\ unfollowUser(p, user.userId, userId)

\* A request arrives: its route and the bearer token it carries.
Arrive(route, token) ==
  /\ request' = [route |-> route, token |-> token]
  /\ resp' = NoResp
  /\ UNCHANGED <<constraints, sessions, store, now, pc>>

\* The request is served: its guards, then its handler.
Serve(p, userId, postId, content) ==
  /\ pc[p] = Idle
  /\ request # NoRequest
  /\ LET verdict == canActivate(UseGuards(request.route), request.route, request.token, Null)
     IN IF verdict.status = "Pass"
          THEN Handler(p, request.route, verdict.user, userId, postId, content)
          ELSE /\ resp' = Response(request.route, [token |-> request.token], verdict.status, Null)
               /\ UNCHANGED <<constraints, request, sessions, store, now, pc>>

\* The clock moves on.
Tick ==
  /\ now < MaxClock
  /\ now' = now + 1
  /\ resp' = NoResp
  /\ UNCHANGED <<constraints, request, sessions, store, pc>>

\* ------------------------------------------------------- specifications
\* A fresh deployment: an empty graph, the constraints installed or not
\* (PROJECT_SUMMARY.md: "Set Up Neo4j Constraints (recommended)").
Init ==
  /\ constraints \in BOOLEAN
  /\ accounts = {}
  /\ posts = {}
  /\ follows = EmptyBag
  /\ posted = EmptyBag
  /\ likes = EmptyBag
  /\ now = 0
  /\ pc = [p \in Procs |-> Idle]
  /\ resp = NoResp
  /\ request = NoRequest
  /\ sessions = 0

\* Registration and login.
NextAccounts ==
  \E p \in Procs :
    \/ UsersService_create(p)
    \/ AdminsService_create(p)
    \/ login(p)

SpecAccounts == Init /\ [][NextAccounts]_vars

\* A deployment in which alice, bob and carol have registered as users and
\* root as an admin, and nothing else has happened yet.
Registered(label, n, username, password) ==
  [label |-> label, id |-> <<"acct", n>>, username |-> username,
   email |-> "a@example.com", password |-> bcryptHash(password, "salt1")]

Population ==
  {Registered("User", 1, "alice", "secret1"), Registered("User", 2, "bob", "secret1"),
   Registered("User", 3, "carol", "secret2"), Registered("Admin", 4, "root", "secret2")}

InitGraph ==
  /\ constraints = TRUE
  /\ accounts = Population
  /\ posts = {}
  /\ follows = EmptyBag
  /\ posted = EmptyBag
  /\ likes = EmptyBag
  /\ now = 0
  /\ pc = [p \in Procs |-> Idle]
  /\ resp = NoResp
  /\ request = NoRequest
  /\ sessions = 0

\* The ids a caller passes: those of the accounts (the admin's is the id of
\* no User), those of the users alone, and those posts may come to carry.
AccountIds == {a.id : a \in accounts}
UserIds == {a.id : a \in Users}
PostIds == {<<"post", n>> : n \in 1..MaxPosts}

\* The follow graph under concurrent requests.
NextFollow ==
  \E p \in Procs :
    \/ followUser(p, AccountIds)
    \/ \E userId \in AccountIds, targetUserId \in AccountIds :
         unfollowUser(p, userId, targetUserId)

SpecFollow == InitGraph /\ [][NextFollow]_vars

\* The follow graph, posts and the feed: one follow in flight (slot r1)
\* while the one-statement handlers run (slot r2).
NextGraph ==
  \/ followUser("r1", UserIds)
  \/ \E userId \in UserIds : \E targetUserId \in UserIds \ {userId} :
       unfollowUser("r2", userId, targetUserId)
  \/ \E userId \in UserIds, content \in Contents :
       createPost("r2", userId, content, 1)
  \/ \E userId \in UserIds : getFeed("r2", userId, "asc")

SpecGraph == InitGraph /\ [][NextGraph]_vars

\* Posts and likes: alice and bob have registered, and follow each other or not.
InitLikes ==
  /\ constraints = TRUE
  /\ accounts = {a \in Population : a.username \in {"alice", "bob", "root"}}
  /\ posts = {}
  /\ follows \in {SetToBag(E) : E \in SUBSET {<<<<"acct", 1>>, <<"acct", 2>>>>,
                                              <<<<"acct", 2>>, <<"acct", 1>>>>}}
  /\ posted = EmptyBag
  /\ likes = EmptyBag
  /\ now = 0
  /\ pc = [p \in Procs |-> Idle]
  /\ resp = NoResp
  /\ request = NoRequest
  /\ sessions = 0

NextLikes ==
  \E p \in {"r1"} :
    \/ \E userId \in AccountIds, content \in Contents, dt \in {1} :
         createPost(p, userId, content, dt)
    \/ \E userId \in AccountIds, postId \in PostIds : likePost(p, userId, postId)
    \/ \E userId \in AccountIds, postId \in PostIds : unlikePost(p, userId, postId)
    \/ \E postId \in PostIds, tie \in TieOrders : getPostById(p, postId, tie)
    \/ \E userId \in UserIds, tie \in TieOrders : getUserPosts(p, userId, tie)
    \/ \E userId \in UserIds, tie \in TieOrders : getFeed(p, userId, tie)

SpecLikes == InitLikes /\ [][NextLikes]_vars

\* A store loaded in bulk: alice, bob and carol have registered, alice
\* follows someone, and n posts were created one after the other, up to and
\* past the feed's LIMIT.  A post's createdAt never precedes that of a post
\* created before it; who wrote which post, and which of them share a
\* createdAt, is drawn from a few patterns.
BulkSizes == {0, 1} \cup ((FeedLimit - 1)..(FeedLimit + MaxExtra))
AuthorPatterns == {"bob", "alternate", "halves"}
ClockPatterns == {"distinct", "pairs", "same"}

BulkAuthor(pattern, i, n) ==
  CASE pattern = "bob" -> <<"acct", 2>>
    [] pattern = "alternate" -> <<"acct", 2 + (i % 2)>>
    [] OTHER -> IF 2 * i <= n THEN <<"acct", 3>> ELSE <<"acct", 2>>

BulkCreatedAt(pattern, i) ==
  CASE pattern = "distinct" -> i
    [] pattern = "pairs" -> i \div 2
    [] OTHER -> 0

InitFeed ==
  /\ constraints = TRUE
  /\ accounts = Population
  /\ \E n \in BulkSizes, ap \in AuthorPatterns, cp \in ClockPatterns :
       /\ posts = {[id |-> <<"post", i>>, content |-> "hello",
                    createdAt |-> BulkCreatedAt(cp, i)] : i \in 1..n}
       /\ posted = SetToBag({<<BulkAuthor(ap, i, n), <<"post", i>>>> : i \in 1..n})
       /\ now = BulkCreatedAt(cp, n)
  /\ follows \in {SetToBag(E) : E \in
                    {{<<<<"acct", 1>>, <<"acct", 2>>>>},
                     {<<<<"acct", 1>>, <<"acct", 2>>>>, <<<<"acct", 1>>, <<"acct", 3>>>>},
                     {<<<<"acct", 1>>, <<"acct", 2>>>>, <<<<"acct", 2>>, <<"acct", 3>>>>}}}
  /\ likes \in {SetToBag(E) : E \in
                    {{}, {<<<<"acct", 1>>, <<"post", 1>>>>, <<<<"acct", 2>>, <<"post", 1>>>>}}}
  /\ pc = [p \in Procs |-> Idle]
  /\ resp = NoResp
  /\ request = NoRequest
  /\ sessions = 0

NextFeed ==
  \E p \in {"r1"} :
    \/ \E userId \in UserIds, tie \in TieOrders : getFeed(p, userId, tie)
    \/ \E userId \in UserIds, tie \in TieOrders : getUserPosts(p, userId, tie)

SpecFeed == InitFeed /\ [][NextFeed]_vars

\* Requests through the guards: alice and bob are users, root is an admin,
\* alice follows bob and bob has posted.  A caller holds no token, one that
\* does not parse, or a token over the payload login signs for alice or for
\* root, issued at some time up to now, or signed now under another key.
InitGuards ==
  /\ constraints = TRUE
  /\ accounts = {a \in Population : a.username \in {"alice", "bob", "root"}}
  /\ posts = {[id |-> <<"post", 1>>, content |-> "hello", createdAt |-> 0]}
  /\ follows = SetToBag({<<<<"acct", 1>>, <<"acct", 2>>>>})
  /\ posted = SetToBag({<<<<"acct", 2>>, <<"post", 1>>>>})
  /\ likes = EmptyBag
  /\ now = 0
  /\ pc = [p \in Procs |-> Idle]
  /\ resp = NoResp
  /\ request = NoRequest
  /\ sessions = 0

RoleOf(a) ==
  IF a.label = "User" THEN "user" ELSE "admin"

\* The payload login signs for an account.
PayloadOf(a) ==
  [username |-> a.username, sub |-> a.id, role |-> RoleOf(a)]

Callers ==
  {a \in accounts : a.username \in {"alice", "root"}}

Tokens ==
  {NoToken, Malformed}
  \cup {Jwt(PayloadOf(a), t, "JWT_SECRET") : <<a, t>> \in Callers \X (0..now)}
  \cup {Jwt(PayloadOf(a), now, "another key") : a \in Callers}

NextGuards ==
  \/ \E route \in Routes, token \in Tokens : Arrive(route, token)
  \/ \E content \in Contents : Serve("r1", <<"acct", 2>>, <<"post", 1>>, content)
  \/ Tick

SpecGuards == InitGuards /\ [][NextGuards]_vars

\* Every operation a caller can reach, one request at a time: alice has
\* registered; others register, log in, follow, post and read.
InitExposed ==
  /\ constraints = TRUE
  /\ accounts = {a \in Population : a.username = "alice"}
  /\ posts = {}
  /\ follows = EmptyBag
  /\ posted = EmptyBag
  /\ likes = EmptyBag
  /\ now = 0
  /\ pc = [p \in Procs |-> Idle]
  /\ resp = NoResp
  /\ request = NoRequest
  /\ sessions = 0

NextExposed ==
  \/ UsersService_create("r1")
  \/ AdminsService_create("r1")
  \/ login("r1")
  \/ followUser("r1", UserIds)
  \/ \E userId \in UserIds, content \in Contents : createPost("r1", userId, content, 1)
  \/ \E a \in accounts : findById("r1", a.label, a.id)
  \/ \E userId \in UserIds : getFollowers("r1", userId)
  \/ \E userId \in UserIds : getFollowing("r1", userId)
  \/ \E userId \in UserIds : getUserPosts("r1", userId, "asc")
  \/ \E userId \in UserIds : getFeed("r1", userId, "asc")
  \/ \E postId \in PostIds : getPostById("r1", postId, "asc")

SpecExposed == InitExposed /\ [][NextExposed]_vars

\* Ids that name no User, or nothing at all: every handler takes its ids
\* from the caller (the token's sub, a route parameter), so an admin's id
\* and an id no node carries both arrive.
NoSuchId == <<"acct", 0>>
AnyIds == AccountIds \cup {NoSuchId}

\* The callers of the follow and like routes: alice, root, and the holder of
\* a token whose sub names no node.
Actors == AnyIds \ {<<"acct", 2>>}

\* Follows, posts and likes asked for with any id: one follow in flight
\* (slot r1) while the one-statement handlers run (slot r2).
NextRefs ==
  \/ \E userId \in Actors, targetUserId \in AnyIds : followUser_check("r1", userId, targetUserId)
  \/ followUser_merge("r1")
  \/ \E userId \in Actors, targetUserId \in AnyIds : unfollowUser("r2", userId, targetUserId)
  \/ \E userId \in AnyIds, content \in Contents : createPost("r2", userId, content, 1)
  \/ \E userId \in Actors, postId \in PostIds : likePost("r2", userId, postId)
  \/ \E userId \in Actors, postId \in PostIds : unlikePost("r2", userId, postId)
  \/ \E userId \in Actors : getFollowing("r2", userId)

SpecRefs == InitLikes /\ [][NextRefs]_vars

\* The writing routes through the guards: bob follows alice and likes his
\* own post; alice and root hold tokens, bob does not call.  A request is
\* served before the next one arrives.
InitOwner ==
  /\ constraints = TRUE
  /\ accounts = {a \in Population : a.username \in {"alice", "bob", "root"}}
  /\ posts = {[id |-> <<"post", 1>>, content |-> "hello", createdAt |-> 0]}
  /\ follows = SetToBag({<<<<"acct", 2>>, <<"acct", 1>>>>})
  /\ posted = SetToBag({<<<<"acct", 2>>, <<"post", 1>>>>})
  /\ likes = SetToBag({<<<<"acct", 2>>, <<"post", 1>>>>})
  /\ now = 0
  /\ pc = [p \in Procs |-> Idle]
  /\ resp = NoResp
  /\ request = NoRequest
  /\ sessions = 0

OwnerRoutes ==
  FollowRoutes \cup {"POST /posts", "POST /posts/:postId/like", "POST /posts/:postId/unlike"}

NextOwner ==
  \/ \E route \in OwnerRoutes, token \in Tokens : pc["r1"] = Idle /\ Arrive(route, token)
  \/ \E userId \in AnyIds, postId \in PostIds, content \in Contents :
       Serve("r1", userId, postId, content)
  \/ followUser_merge("r1")

SpecOwner == InitOwner /\ [][NextOwner]_vars

\* Handlers whose statements can be rejected: alice has registered, others
\* register, users follow, alice posts and likes, and any statement may fail.
NextFailures ==
  \/ \E p \in Procs : UsersService_create(p)
  \/ \E p \in Procs : followUser(p, UserIds)
  \/ \E content \in Contents : createPost("r1", <<"acct", 1>>, content, 1)
  \/ \E postId \in PostIds : likePost("r1", <<"acct", 1>>, postId)
  \/ \E p \in Procs, op \in Operations : runRejects(p, op)
  \/ \E p \in Procs : runRejectsInFlight(p)

SpecFailures == InitExposed /\ [][NextFailures]_vars

\* The views of one store: alice and bob follow, unfollow, post, like and
\* unlike, and every list and feed is read, one request at a time.
NextViews ==
  \/ followUser("r1", UserIds)
  \/ \E userId \in UserIds, targetUserId \in UserIds : unfollowUser("r1", userId, targetUserId)
  \/ \E userId \in UserIds, content \in Contents : createPost("r1", userId, content, 1)
  \/ \E userId \in UserIds, postId \in PostIds : likePost("r1", userId, postId)
  \/ \E userId \in UserIds, postId \in PostIds : unlikePost("r1", userId, postId)
  \/ \E userId \in UserIds : getFollowers("r1", userId)
  \/ \E userId \in UserIds : getFollowing("r1", userId)
  \/ \E userId \in UserIds : getFeed("r1", userId, "asc")
  \/ \E userId \in UserIds : getUserPosts("r1", userId, "asc")
  \/ \E postId \in PostIds : getPostById("r1", postId, "asc")

SpecViews == InitLikes /\ [][NextViews]_vars

\* ================================================================ claims
\* C1: in every reachable state no two accounts of the same variant share a
\* username, also when two create calls for the same variant and username
\* interleave their existence checks and inserts.
C1_UniqueUsernames ==
  \A a \in accounts, b \in accounts :
    (a.label = b.label /\ a.username = b.username) => a = b

\* The follow response for two distinct existing Users.
FollowOfUsers ==
  /\ resp.op = "followUser"
  /\ resp.args.userId # resp.args.targetUserId
  /\ resp.args.userId \in UserIds
  /\ resp.args.targetUserId \in UserIds

\* C2: for existing distinct Users A and B every follow(A,B) call, however
\* many run concurrently, returns Ack and leaves exactly one FOLLOWS edge
\* A->B; no ordered pair ever has two FOLLOWS edges.
C2_FollowConverges ==
  /\ \A e \in BagToSet(follows) : CopiesIn(e, follows) = 1
  /\ FollowOfUsers =>
       /\ resp.status = "Ack"
       /\ CopiesIn(<<resp.args.userId, resp.args.targetUserId>>, follows) = 1

\* C2's case: one follow(A,B) has just returned while another follow(A,B),
\* past its existence check, is still to run its MERGE.
C2_Witness ==
  /\ FollowOfUsers
  /\ resp.status = "Ack"
  /\ \E p \in Procs : pc[p].op = "followUser" /\ pc[p].args = resp.args
  /\ CopiesIn(<<resp.args.userId, resp.args.targetUserId>>, follows) = 1

\* The ids of the Users with a POSTED relationship to the post.
Authors(postId) ==
  {e[1] : e \in {x \in BagToSet(posted) : x[2] = postId}}

\* C3: in every reachable state every Post has exactly one incoming POSTED
\* edge, from an existing User, and every POSTED edge ends at a Post:
\* createPost persists the Post and its author edge together or neither.
C3_PostHasAuthor ==
  /\ \A post \in posts :
       /\ Cardinality(Authors(post.id)) = 1
       /\ \A a \in Authors(post.id) :
            a \in UserIds /\ CopiesIn(<<a, post.id>>, posted) = 1
  /\ \A e \in BagToSet(posted) : MatchPost(e[2]) # {}

\* C3's case: createPost has just created a post.
C3_Witness ==
  /\ resp.op = "createPost"
  /\ resp.status = "Created"
  /\ MatchPost(resp.body.id) # {}
  /\ Authors(resp.body.id) = {resp.args.userId}

\* The posts a feed response shows.
Shown(body) ==
  {body[i].id : i \in 1..Len(body)}

\* x has a FOLLOWS edge to y.
Follows(x, y) ==
  BagIn(<<x, y>>, follows)

\* The posts of the users x follows.
Eligible(x) ==
  {post \in posts : \E y \in Authors(post.id) : Follows(x, y)}

UnfollowStep(x, y) ==
  /\ resp'.op = "unfollowUser"
  /\ resp'.args = [userId |-> x, targetUserId |-> y]

FollowStep(x, y) ==
  \E p \in Procs :
    /\ pc[p].op = "followUser"
    /\ pc[p].args = [userId |-> x, targetUserId |-> y]
    /\ pc'[p] = Idle

\* The feed of x shows a post of y.
FeedShows(x, y) ==
  \E tie \in TieOrders :
    LET body == PostViews(FeedQuery(x, tie))
    IN \E i \in 1..Len(body) : y \in Authors(body[i].id)

\* Every post the feed of x shows is of a user x follows now.
FeedOfFollowedOnly(x) ==
  \A tie \in TieOrders :
    LET body == PostViews(FeedQuery(x, tie))
    IN \A i \in 1..Len(body) : \E y \in Authors(body[i].id) : Follows(x, y)

\* C5: after unfollow(X,Y) returns, getFeed(X) contains no post of Y until X
\* follows Y again, whatever Y posts meanwhile, and is empty if Y was X's
\* only followee.  In two parts: the unfollow step, and every later step
\* that is not the MERGE of a follow(X,Y), leads to a state without the edge
\* X->Y; and in every state the feed of X shows posts of users X has an
\* edge to, and nothing else.
C5_UnfollowClearsFeed ==
  /\ [](\A x \in UserIds : FeedOfFollowedOnly(x))
  /\ [][\A x \in UserIds : \A y \in UserIds \ {x} :
          (UnfollowStep(x, y) \/ (~Follows(x, y) /\ ~FollowStep(x, y))) =>
             ~Follows(x, y)']_vars

\* C5's case: unfollow(X,Y) has just returned, Y has a post, and X still
\* follows another user whose post the feed goes on showing.
C5_Witness ==
  /\ resp.op = "unfollowUser"
  /\ \E z \in UserIds \ {resp.args.userId, resp.args.targetUserId} :
       /\ Follows(resp.args.userId, z)
       /\ FeedShows(resp.args.userId, z)
  /\ \E post \in posts : Authors(post.id) = {resp.args.targetUserId}
  /\ ~FeedShows(resp.args.userId, resp.args.targetUserId)

\* The posts of y that the step leaves as they were: those created before it.
EarlierPosts(y) ==
  {post \in posts : y \in Authors(post.id)}

C7_FeedCap ==
  resp.op = "getFeed" =>
    LET eligible == Eligible(resp.args.userId)
        shown == Shown(resp.body)
    IN /\ Len(resp.body) <= FeedLimit
       /\ Len(resp.body) = IF Cardinality(eligible) < FeedLimit
                             THEN Cardinality(eligible) ELSE FeedLimit
       /\ Cardinality(shown) = Len(resp.body)
       /\ shown \subseteq {post.id : post \in eligible}
       /\ \A post \in eligible :
            post.id \notin shown =>
              \A i \in 1..Len(resp.body) : resp.body[i].createdAt >= post.createdAt

\* C7's case: X follows two users who have more than 50 posts between them;
\* the feed holds 50, of both, and leaves an older one out.
C7_Witness ==
  /\ resp.op = "getFeed"
  /\ Len(resp.body) = FeedLimit
  /\ Cardinality(Eligible(resp.args.userId)) > FeedLimit
  /\ \E i \in 1..Len(resp.body), j \in 1..Len(resp.body) :
       resp.body[i].username # resp.body[j].username
  /\ \E post \in Eligible(resp.args.userId) :
       /\ post.id \notin Shown(resp.body)
       /\ post.createdAt < resp.body[Len(resp.body)].createdAt

\* C8: in every result of getFeed and of getUserPosts no post with an older
\* creation time precedes a post with a newer one.
C8_NewestFirst ==
  resp.op \in {"getFeed", "getUserPosts"} =>
    \A i \in 1..Len(resp.body), j \in 1..Len(resp.body) :
      i < j => resp.body[i].createdAt >= resp.body[j].createdAt

\* C8's case: getUserPosts returns more posts than the feed's cap, the first
\* newer than the last.
C8_Witness ==
  /\ resp.op = "getUserPosts"
  /\ Len(resp.body) > FeedLimit
  /\ resp.body[1].createdAt > resp.body[Len(resp.body)].createdAt

\* The Users with a LIKES relationship to the post.
LikedBy(postId) ==
  {u \in Users : BagIn(<<u.id, postId>>, likes)}

\* Every likesCount of the last response is the number of Users who like the post.
CountsLikers ==
  CASE resp.op = "getPostById" /\ resp.status = "Ok" ->
         resp.body.likesCount = Cardinality(LikedBy(resp.body.id))
    [] resp.op \in {"getUserPosts", "getFeed"} ->
         \A i \in 1..Len(resp.body) :
           resp.body[i].likesCount = Cardinality(LikedBy(resp.body[i].id))
    [] OTHER -> TRUE

\* What a step does to the LIKES edge u -> q: a likePost(u, q) that returns
\* Ack leaves it there, an unlikePost(u, q) leaves it gone, and any other
\* step leaves it as it was.
LikeEdgeStep(u, q) ==
  IF resp'.op = "likePost" /\ resp'.status = "Ack"
       /\ resp'.args = [userId |-> u, postId |-> q]
    THEN BagIn(<<u, q>>, likes)'
    ELSE IF resp'.op = "unlikePost" /\ resp'.args = [userId |-> u, postId |-> q]
      THEN ~BagIn(<<u, q>>, likes)'
      ELSE BagIn(<<u, q>>, likes)' <=> BagIn(<<u, q>>, likes)

\* C9: the likesCount that getPostById, getUserPosts and getFeed report for
\* a post is the number of distinct Users with a LIKES edge to it, that is
\* of the existing users whose last successful like/unlike of it was a like:
\* 0 for a fresh post, 1 after one user likes it.
C9_LikesCount ==
  /\ [](/\ CountsLikers
        /\ \A e \in BagToSet(likes) : e[1] \in UserIds /\ MatchPost(e[2]) # {})
  /\ [][\A u \in AccountIds, q \in PostIds : LikeEdgeStep(u, q)]_vars

\* C9's case: a feed that shows one post liked by one user and another
\* liked by two.
C9_Witness ==
  /\ resp.op = "getFeed"
  /\ \E i \in 1..Len(resp.body), j \in 1..Len(resp.body) :
       /\ resp.body[i].likesCount = 1
       /\ resp.body[j].likesCount = 2

\* C10: for every registered account, login with its username and its
\* password never fails, and login with its username and a password that is
\* not the password of an account of that username always fails
\* (Unauthorized).  The accounts are those registered when the login began:
\* none was created between its two lookups.
C10_Authenticate ==
  (resp.op = "login" /\ ~resp.raced) =>
    LET named == {a \in accounts : a.username = resp.args.username}
        right == {a \in named : bcryptCompare(resp.args.password, a.password)}
    IN /\ right # {} => resp.status = "Ok"
       /\ (named # {} /\ right = {}) => resp.status = "Unauthorized"

\* The accounts of one collection that carry the username of the last login,
\* and those among them whose hash the login's password verifies against.
Named(label) ==
  {a \in accounts : a.label = label /\ a.username = resp.args.username}

Right(label) ==
  {a \in Named(label) : bcryptCompare(resp.args.password, a.password)}

InBoth ==
  resp.op = "login" /\ ~resp.raced /\ Named("User") # {} /\ Named("Admin") # {}

Role ==
  IF resp.status = "Ok" THEN resp.body.user.role ELSE "none"

\* C11 as claimed: when the username of a login exists among the Users and
\* among the Admins, a password that verifies against the User's hash yields
\* an Identity with role user, and no login of that username ever yields an
\* Identity with role admin.
C11_UserAlwaysWins ==
  InBoth => /\ Right("User") # {} => Role = "user"
            /\ Role # "admin"

\* C11 as the code has it: when the username of a login exists among the
\* Users and among the Admins, a password that verifies against the hash of
\* every User of that name yields role user; role user is only ever given on
\* a User's hash, and role admin only when the password verifies against the
\* Admin's hash and fails against the hash of a User of that name.
C11_UserFirstThenAdmin ==
  InBoth => /\ Right("User") = Named("User") => Role = "user"
            /\ Role = "user" => Right("User") # {}
            /\ Role = "admin" => Right("Admin") # {} /\ Right("User") # Named("User")

\* A login of a name held by a User and an Admin that came back as admin.
C11_Witness ==
  InBoth /\ Role = "admin"

\* A step in which a login reads the store or returns.
LoginStep ==
  \E p \in Procs : \/ pc[p] = Idle /\ pc'[p].op = "login"
                   \/ pc[p].op = "login" /\ pc'[p] = Idle
                   \/ pc[p] = Idle /\ pc' = pc /\ resp'.op = "login"

\* C12: a failed login has one outcome, whether the username matches no
\* account or matches one whose hash does not verify: Unauthorized with the
\* message "Invalid credentials" and no token; and no step of a login
\* changes the store.
C12_OneFailure ==
  /\ [](resp.op = "login" /\ resp.status # "Ok" =>
           resp.status = "Unauthorized" /\ resp.body = "Invalid credentials")
  /\ [][LoginStep => store' = store]_vars

\* A login that failed on a hash mismatch: the username is registered.
C12_Witness ==
  /\ resp.op = "login" /\ resp.status = "Unauthorized" /\ ~resp.raced
  /\ Named("User") \cup Named("Admin") # {}

\* ------------------------------------------------------------ the guards
\* The response in hand answers the request in hand, at the clock reading
\* at which it was served.
Served ==
  request # NoRequest /\ resp # NoResp

\* The guards turned the request away: the handler did not run.
Rejected ==
  resp.op = request.route

\* The token of the request: signed with the server's secret, and its
\* lifetime over.
WellSigned ==
  IF request.token \in {NoToken, Malformed} THEN FALSE
  ELSE request.token.secret = "JWT_SECRET"

Expired ==
  now >= request.token.iat + JwtExpiration

ValidToken ==
  WellSigned /\ ~Expired

CallerRole ==
  request.token.payload.role

UserOnly ==
  {"POST /posts", "POST /posts/:postId/like", "POST /posts/:postId/unlike", "GET /posts/feed"}

AdminOnly ==
  {"GET /admins/profile"}

WrongRole ==
  \/ request.route \in UserOnly /\ CallerRole # "user"
  \/ request.route \in AdminOnly /\ CallerRole # "admin"

\* C13: a role-gated operation called with a valid token of a role outside
\* its allowed set is answered Forbidden, and the step that answers
\* Forbidden leaves the store as it was: an admin never creates a post,
\* likes, unlikes or reads a feed, a user never reads the admin profile.
C13_Forbidden ==
  /\ []((Served /\ ValidToken /\ WrongRole) => resp.status = "Forbidden")
  /\ [][(resp' # NoResp /\ resp'.status = "Forbidden") => store' = store]_vars

\* An admin's valid token on POST /posts, answered Forbidden.
C13_Witness ==
  /\ Served /\ ValidToken /\ request.route = "POST /posts" /\ CallerRole = "admin"
  /\ resp.status = "Forbidden"

\* C14: on a role-gated operation a missing, malformed, badly signed or
\* expired token is answered Unauthorized, never Forbidden, whatever role it
\* names; the handler runs only for a valid token of an allowed role; and
\* the step that answers Unauthorized leaves the store as it was.
C14_AuthenticationFirst ==
  /\ []((Served /\ request.route \in UserOnly \cup AdminOnly) =>
          /\ ~ValidToken => resp.status = "Unauthorized"
          /\ ~Rejected => ValidToken /\ ~WrongRole)
  /\ [][(resp' # NoResp /\ resp'.status = "Unauthorized") => store' = store]_vars

\* An expired token of the wrong role on a role-gated operation, answered
\* Unauthorized.
C14_Witness ==
  /\ Served /\ WellSigned /\ Expired /\ WrongRole
  /\ resp.status = "Unauthorized"

PostReads ==
  {"GET /posts/user/:userId", "GET /posts/:postId"}

\* What the two post reads return for the parameters the requests carry.
ReadResult ==
  IF request.route = "GET /posts/user/:userId"
    THEN Response("getUserPosts", [userId |-> <<"acct", 2>>], "Ok",
                  PostViews(UserPostsQuery(<<"acct", 2>>, "asc")))
    ELSE Response("getPostById", [postId |-> <<"post", 1>>], "Ok",
                  PostViews(PostByIdQuery(<<"post", 1>>, "asc"))[1])

\* C15 as claimed: getUserPosts and getPostById are public, a caller with no
\* token or an invalid one gets what an authenticated caller gets; among
\* the post reads only getFeed answers Unauthorized.
C15_ReadsArePublic ==
  /\ (Served /\ request.route \in PostReads) => resp = ReadResult
  /\ (Served /\ request.route = "GET /posts/feed" /\ ~ValidToken) =>
       resp.status = "Unauthorized"

\* C15 as the code has it: getUserPosts and getPostById need a valid token
\* as getFeed does, and answer Unauthorized without one; with a valid token
\* of either role they return the same result.
C15_ReadsNeedToken ==
  /\ (Served /\ request.route \in PostReads) =>
       IF ValidToken THEN resp = ReadResult ELSE resp.status = "Unauthorized"
  /\ (Served /\ request.route = "GET /posts/feed" /\ ~ValidToken) =>
       resp.status = "Unauthorized"

\* getPostById asked without a token, answered Unauthorized.
C15_Witness ==
  /\ Served /\ request.route = "GET /posts/:postId" /\ request.token = NoToken
  /\ resp.status = "Unauthorized"

C17_ExpiryOnly ==
  /\ []((Served /\ WellSigned) =>
          /\ Expired => resp.status = "Unauthorized" /\ Rejected
          /\ ~Expired => resp.status # "Unauthorized")
  /\ [](\A token \in Tokens \ {NoToken, Malformed} :
          token.secret = "JWT_SECRET" =>
            \A t \in 0..MaxClock :
              (jwtVerify(token, t) = Invalid) <=> (t >= token.iat + JwtExpiration))
  /\ [][now' >= now]_vars

\* A token that was accepted and, its lifetime over, is refused on a route
\* without a role.
C17_Witness ==
  /\ Served /\ WellSigned /\ Expired /\ request.route = "GET /users/profile"
  /\ resp.status = "Unauthorized"

\* C18: the token of a successful login, verified at any time before its
\* expiry, decodes to the id (as userId), the username and the role of the
\* Identity login returned, and that role is the one of the collection in
\* which an account of that id, username and password is stored.
C18_RoundTrip ==
  (resp.op = "login" /\ resp.status = "Ok") =>
    /\ \A t \in now..(now + JwtExpiration - 1) :
         /\ jwtVerify(resp.body.access_token, t) # Invalid
         /\ validate(jwtVerify(resp.body.access_token, t))
              = [userId |-> resp.body.user.id, username |-> resp.body.user.username,
                 role |-> resp.body.user.role]
    /\ \E a \in accounts :
         /\ a.id = resp.body.user.id /\ a.username = resp.body.user.username
         /\ bcryptCompare(resp.args.password, a.password)
         /\ resp.body.user.role = (IF a.label = "User" THEN "user" ELSE "admin")

\* A login as admin whose token decodes to role admin.
C18_Witness ==
  /\ resp.op = "login" /\ resp.status = "Ok" /\ resp.body.user.role = "admin"
  /\ validate(jwtVerify(resp.body.access_token, now)).role = "admin"

\* A returned record carries no password field, and no raw password in its
\* username or email.
Hides(v) ==
  /\ "password" \notin DOMAIN v
  /\ \A f \in DOMAIN v \cap {"username", "email", "content"} : v[f] \notin Passwords

\* C19: no value an exposed operation returns (register, login, profile,
\* followers, following, post creation and post reads) carries a password
\* hash or a raw password; findByUsername, used by login alone, is what
\* yields the record with its hash.
C19_NoPasswordReturned ==
  /\ (resp.op = "create" /\ resp.status = "Created") => Hides(resp.body)
  /\ (resp.op = "login" /\ resp.status = "Ok") =>
       /\ DOMAIN resp.body = {"access_token", "user"}
       /\ Hides(resp.body.user)
       /\ Hides(resp.body.access_token.payload)
  /\ (resp.op = "findById" /\ resp.body # Null) => Hides(resp.body)
  /\ resp.op \in {"getFollowers", "getFollowing"} =>
       \A row \in BagToSet(resp.body) : Hides(row)
  /\ resp.op \in {"getUserPosts", "getFeed"} =>
       \A i \in 1..Len(resp.body) : Hides(resp.body[i])
  /\ (resp.op \in {"getPostById", "createPost"} /\ resp.status \in {"Ok", "Created"}) =>
       Hides(resp.body)
  /\ \A label \in Labels, username \in Usernames :
       \A a \in findByUsername(label, username) \ {Null} : "password" \in DOMAIN a

\* A list of followers with a row in it.
C19_Witness ==
  resp.op = "getFollowers" /\ BagToSet(resp.body) # {}

\* C20: a create call that finishes while an account of its variant already
\* carries its username answers Conflict, and the accounts are left as they
\* were: none added, none modified.
C20_ConflictOnExisting ==
  [][(/\ resp'.op = "create"
      /\ MatchUsername(resp'.args.label, resp'.args.dto.username) # {})
       => (resp'.status = "Conflict" /\ accounts' = accounts)]_vars

\* The accounts of the variant and username a create call names.
SameVariant(args) ==
  {a \in accounts : a.label = args.label /\ a.username = args.dto.username}

\* C21: whether a create succeeds or answers Conflict is decided by its own
\* variant's collection alone: it answers Conflict only when its variant
\* holds the username, and it succeeds whenever its variant does not,
\* whatever the other variant holds; so one username registers as a User and
\* as an Admin, in either order.
C21_IndependentNamespaces ==
  [][resp'.op = "create" =>
       /\ resp'.status = "Conflict" => SameVariant(resp'.args) # {}
       /\ SameVariant(resp'.args) = {} => resp'.status = "Created"]_vars

\* One username registered as a User and as an Admin, the later of the two
\* registrations having just succeeded.
C21_Witness ==
  /\ resp.op = "create"
  /\ resp.status = "Created"
  /\ \E a \in accounts :
       /\ a.label # resp.args.label
       /\ a.username = resp.args.dto.username

\* The response to a follow of oneself.
SelfFollow ==
  resp.op = "followUser" /\ resp.args.userId = resp.args.targetUserId

\* C22: follow(A,A) fails with an error of a kind of its own, which is
\* neither NotFound nor Conflict.
C22_SelfReferenceKind ==
  SelfFollow => resp.status \notin {"Ack", "NotFound", "Conflict"}

\* C22: follow(A,A) always fails, whether or not A is an existing User; the
\* failure is the ConflictException "Cannot follow yourself", never NotFound;
\* no follow of oneself goes on to the store, and the store is unchanged.
C22_SelfFollowConflict ==
  /\ [](SelfFollow => (resp.status = "Conflict" /\ resp.body = "Cannot follow yourself"))
  /\ [](\A p \in Procs : pc[p].op = "followUser" => pc[p].args.userId # pc[p].args.targetUserId)
  /\ [][(/\ resp'.op = "followUser"
         /\ resp'.args.userId = resp'.args.targetUserId) => store' = store]_vars

\* A follow of oneself under an id that names no User.
C22_Witness ==
  SelfFollow /\ MatchUser(resp.args.userId) = {}

\* C23: no FOLLOWS relationship goes from a user to that same user.
C23_NoSelfFollow ==
  \A e \in BagToSet(follows) : e[1] # e[2]

\* An existing user's follow of oneself has been answered while another
\* follow is in flight.
C23_Witness ==
  /\ SelfFollow
  /\ resp.args.userId \in UserIds
  /\ \E p \in Procs : pc[p].op = "followUser"

\* The response to a follow of someone else in which the actor or the target
\* is not an existing User.
FollowOfMissing ==
  /\ resp.op = "followUser"
  /\ resp.args.userId # resp.args.targetUserId
  /\ (resp.args.userId \notin UserIds \/ resp.args.targetUserId \notin UserIds)

\* C24: a follow of someone else answers NotFound when the actor or the
\* target is not the id of an existing User, an Admin's id included; such a
\* follow never reaches the MERGE, and the store is unchanged.
C24_FollowNotFound ==
  /\ [](FollowOfMissing => resp.status = "NotFound")
  /\ [](\A p \in Procs : pc[p].op = "followUser" =>
          {pc[p].args.userId, pc[p].args.targetUserId} \subseteq UserIds)
  /\ [][(resp'.op = "followUser" /\ resp'.status = "NotFound") => store' = store]_vars

\* An admin's follow of an existing user has been answered.
C24_Witness ==
  /\ FollowOfMissing
  /\ resp.args.userId \in AccountIds \ UserIds
  /\ resp.args.targetUserId \in UserIds

\* C25: both ends of every FOLLOWS relationship are existing Users, never
\* Admins, and every LIKES relationship goes from an existing User to an
\* existing Post.
C25_ReferentialIntegrity ==
  /\ \A e \in BagToSet(follows) : e[1] \in UserIds /\ e[2] \in UserIds
  /\ \A e \in BagToSet(likes) : e[1] \in UserIds /\ e[2] \in {q.id : q \in posts}

\* Follows and likes are in the store, and a like under an id that names no
\* User has just been refused.
C25_Witness ==
  /\ follows # EmptyBag
  /\ likes # EmptyBag
  /\ resp.op = "likePost"
  /\ resp.args.userId \notin UserIds
  /\ resp.args.postId \in {q.id : q \in posts}

\* The relationship a follow or unfollow response names.
EdgeOf(r) ==
  <<r.args.userId, r.args.targetUserId>>

\* C26: for existing distinct Users A and B a follow(A,B) answers Ack and
\* leaves exactly one FOLLOWS A->B; repeated while that relationship is
\* there it answers Ack again and changes nothing in the store.  An
\* unfollow(A,B) answers Ack and leaves none; repeated it answers Ack again
\* and changes nothing.  getFollowing(A) lists every followed user once, so
\* it lists the same after the repeat as before it.
C26_Idempotent ==
  /\ [][(/\ resp'.op = "followUser"
         /\ resp'.args.userId # resp'.args.targetUserId
         /\ {resp'.args.userId, resp'.args.targetUserId} \subseteq UserIds)
          => /\ resp'.status = "Ack"
             /\ CopiesIn(EdgeOf(resp'), follows') = 1
             /\ BagIn(EdgeOf(resp'), follows) => store' = store]_vars
  /\ [][resp'.op = "unfollowUser"
          => /\ resp'.status = "Ack"
             /\ CopiesIn(EdgeOf(resp'), follows') = 0
             /\ ~BagIn(EdgeOf(resp'), follows) => store' = store]_vars
  /\ []((resp.op = "getFollowing" /\ resp.args.userId \in UserIds) =>
          \A b \in Users :
            CopiesIn(WithoutPassword(b), resp.body) =
              IF BagIn(<<resp.args.userId, b.id>>, follows) THEN 1 ELSE 0)

\* A follow(A,B) has passed its check and is about to MERGE a relationship
\* that is already there.
C26_Witness ==
  \E p \in Procs :
    /\ pc[p].op = "followUser"
    /\ BagIn(<<pc[p].args.userId, pc[p].args.targetUserId>>, follows)

\* The relationship a like or unlike response names.
LikeOf(r) ==
  <<r.args.userId, r.args.postId>>

C28_AbsentEdgeNoOp ==
  /\ [][(resp'.op = "unfollowUser" /\ ~BagIn(EdgeOf(resp'), follows))
          => (resp'.status = "Ack" /\ store' = store)]_vars
  /\ [][(resp'.op = "unlikePost" /\ ~BagIn(LikeOf(resp'), likes))
          => (resp'.status = "Ack" /\ store' = store)]_vars

\* An unlike under an id that names no node has been answered in a store
\* that holds follows and likes.
C28_Witness ==
  /\ resp.op = "unlikePost"
  /\ resp.args.userId = NoSuchId
  /\ follows # EmptyBag
  /\ likes # EmptyBag

\* C29: createPost answers NotFound when the author id is not the id of an
\* existing User, an Admin's id included, and then neither a Post nor a
\* POSTED relationship is persisted: the store is as it was.
C29_PostNotFound ==
  /\ []((resp.op = "createPost" /\ resp.args.userId \notin UserIds)
          => resp.status = "NotFound")
  /\ [][(resp'.op = "createPost" /\ resp'.args.userId \notin UserIds)
          => (posts' = posts /\ posted' = posted /\ store' = store)]_vars

\* An admin's createPost has been answered in a store that holds a post.
C29_Witness ==
  /\ resp.op = "createPost"
  /\ resp.args.userId \in AccountIds \ UserIds
  /\ posts # {}

\* The posts the store holds as posted by author.
PostedBy(author) ==
  {q \in posts : BagIn(<<author, q.id>>, posted)}

\* What a step does to the posts and their POSTED relationships: a
\* createPost that returns success adds the one post it returns, under a
\* fresh id, with the one relationship from its author, and returns the
\* author's username; no other step touches either.
CreatePostStep ==
  IF resp'.op = "createPost" /\ resp'.status = "Created"
    THEN /\ resp'.body.id \notin {q.id : q \in posts}
         /\ posts' = posts \cup {[id |-> resp'.body.id, content |-> resp'.body.content,
                                  createdAt |-> resp'.body.createdAt]}
         /\ posted' = posted (+) SetToBag({<<resp'.args.userId, resp'.body.id>>})
         /\ \E u \in Users : u.id = resp'.args.userId /\ u.username = resp'.body.username
    ELSE posts' = posts /\ posted' = posted

\* C30: getUserPosts(author) returns exactly the posts that createPost
\* calls for that author returned, each once, each under the author's
\* username and with its content, and none of any other user's.
C30_UserPosts ==
  /\ [](resp.op = "getUserPosts" =>
          /\ {resp.body[i].id : i \in 1..Len(resp.body)}
               = {q.id : q \in PostedBy(resp.args.userId)}
          /\ Len(resp.body) = Cardinality(PostedBy(resp.args.userId))
          /\ \A i \in 1..Len(resp.body) :
               /\ \E u \in Users :
                    u.id = resp.args.userId /\ u.username = resp.body[i].username
               /\ \E q \in PostedBy(resp.args.userId) :
                    /\ q.id = resp.body[i].id
                    /\ q.content = resp.body[i].content
                    /\ q.createdAt = resp.body[i].createdAt)
  /\ [][CreatePostStep]_vars

\* The posts of an author who has posted, read while another user has
\* posted too.
C30_Witness ==
  /\ resp.op = "getUserPosts"
  /\ Len(resp.body) >= 1
  /\ \E q \in posts : q \notin PostedBy(resp.args.userId)

\* The response to a like in which the actor is not an existing User or the
\* post is not an existing Post.
LikeOfMissing ==
  /\ resp.op = "likePost"
  /\ (resp.args.userId \notin UserIds \/ resp.args.postId \notin {q.id : q \in posts})

\* C31: a likePost answers NotFound when the actor is not an existing User
\* or the post is not an existing Post; it then creates no LIKES
\* relationship, the store is as it was and every post has the likers it had.
C31_LikeNotFound ==
  /\ [](LikeOfMissing => resp.status = "NotFound")
  /\ [][(resp'.op = "likePost" /\ resp'.status = "NotFound")
          => /\ likes' = likes
             /\ store' = store
             /\ \A q \in posts : Likers(q)' = Likers(q)]_vars

\* An existing user's like of a post id that names no post has been
\* answered in a store that holds a post and a like.
C31_Witness ==
  /\ LikeOfMissing
  /\ resp.args.userId \in UserIds
  /\ posts # {}
  /\ likes # EmptyBag

\* C32: getPostById answers NotFound exactly when no post carries the id;
\* otherwise it returns that post: its content and createdAt, the username
\* of the user it is POSTED by and the number of users who like it.  Every
\* post a createPost returned is in the store from then on, with the
\* content it was given.
C32_PostById ==
  /\ [](resp.op = "getPostById" =>
          /\ resp.status = "NotFound" <=> resp.args.postId \notin {q.id : q \in posts}
          /\ resp.status = "Ok" <=> resp.args.postId \in {q.id : q \in posts}
          /\ resp.status = "Ok" =>
               \E q \in posts :
                 /\ q.id = resp.args.postId
                 /\ resp.body.id = q.id
                 /\ resp.body.content = q.content
                 /\ resp.body.createdAt = q.createdAt
                 /\ \E u \in Users : /\ BagIn(<<u.id, q.id>>, posted)
                                     /\ resp.body.username = u.username
                 /\ resp.body.likesCount
                      = Cardinality({u \in Users : BagIn(<<u.id, q.id>>, likes)}))
  /\ [][/\ posts \subseteq posts'
        /\ (resp'.op = "createPost" /\ resp'.status = "Created") =>
             \E q \in posts' : /\ q.id = resp'.body.id
                               /\ q.content = resp'.args.content]_vars

\* A post that someone likes has been read by its id.
C32_Witness ==
  /\ resp.op = "getPostById"
  /\ resp.status = "Ok"
  /\ resp.body.likesCount >= 1

\* The identity the request in hand is authenticated as: the sub of its
\* token, when the token is signed with the server's key and has not expired.
Authenticated ==
  IF request = NoRequest THEN {}
  ELSE IF "payload" \notin DOMAIN request.token THEN {}
  ELSE IF request.token.secret # "JWT_SECRET" \/ now >= request.token.exp THEN {}
  ELSE {request.token.payload.sub}

\* The relationships of a bag that a step adds or removes.
Touched(rels, after) ==
  {e \in BagToSet(rels) \cup BagToSet(after) : CopiesIn(e, rels) # CopiesIn(e, after)}

\* C33: every FOLLOWS or LIKES relationship that a request creates or
\* removes, and the POSTED relationship of every post it creates, starts at
\* the identity the request is authenticated as; no request writes under
\* another user's id.
C33_OwnEdgesOnly ==
  [][/\ \A e \in Touched(follows, follows') : e[1] \in Authenticated
     /\ \A e \in Touched(likes, likes') : e[1] \in Authenticated
     /\ \A e \in Touched(posted, posted') : e[1] \in Authenticated]_vars

\* alice's request to unfollow bob has been served after a post was
\* created, and bob's own follow of alice is still there.
C33_Witness ==
  /\ resp.op = "unfollowUser"
  /\ resp.args.userId = <<"acct", 1>>
  /\ resp.args.targetUserId = <<"acct", 2>>
  /\ BagIn(<<<<"acct", 2>>, <<"acct", 1>>>>, follows)
  /\ posts # {[id |-> <<"post", 1>>, content |-> "hello", createdAt |-> 0]}

\* C34: when a statement is rejected the caller gets the store's error, a
\* kind that is none of Conflict, NotFound, Unauthorized and Forbidden, and
\* nothing of the operation remains in the store: the failing step writes
\* nothing, and no step that leaves a handler in flight, with a statement
\* still to fail, has written anything.
C34_StoreFailure ==
  /\ [][(resp'.op # "none" /\ resp'.status = "StoreError") => store' = store]_vars
  /\ [][(\E p \in Procs : pc'[p] # Idle /\ pc'[p] # pc[p]) => store' = store]_vars
  /\ [][(resp'.op # "none" /\ store' # store) => resp'.status \in {"Created", "Ack"}]_vars
  /\ [][(\E p \in Procs : pc[p] # Idle /\ pc'[p] = Idle) =>
          /\ resp'.op # "none"
          /\ resp'.status \in {"StoreError", "Created", "Ack"}
          /\ resp'.status \notin {"Conflict", "NotFound", "Unauthorized", "Forbidden"}]_vars

\* A follow has failed at its MERGE, after its check had passed.
C34_Witness ==
  /\ resp.op = "followUser"
  /\ resp.status = "StoreError"
  /\ resp.args # Null

\* C35: a session is open only while a handler is between two of its
\* statements; every handler that has returned or thrown (Conflict,
\* NotFound, a store failure) has closed its session, so with no handler in
\* flight no session is open.
C35_SessionsClosed ==
  /\ sessions = Cardinality({p \in Procs : pc[p].op \in {"create", "followUser"}})
  /\ (\A p \in Procs : pc[p] = Idle) => sessions = 0

\* A store failure has been answered and no handler is in flight.
C35_Witness ==
  /\ resp.op # "none"
  /\ resp.status = "StoreError"
  /\ \A p \in Procs : pc[p] = Idle

\* C36: getFollowing and getFollowers are converse views of FOLLOWS: for
\* all Users A and B, B is in the list getFollowing(A) returns if and only
\* if A is in the list getFollowers(B) returns, and that is exactly when a
\* FOLLOWS A->B is in the store; each handler returns its query's rows.
C36_ConverseViews ==
  /\ \A a \in Users, b \in Users :
       /\ BagIn(WithoutPassword(b), FollowingQuery(a.id)) <=> BagIn(<<a.id, b.id>>, follows)
       /\ BagIn(WithoutPassword(a), FollowersQuery(b.id)) <=> BagIn(<<a.id, b.id>>, follows)
  /\ resp.op = "getFollowing" => resp.body = FollowingQuery(resp.args.userId)
  /\ resp.op = "getFollowers" => resp.body = FollowersQuery(resp.args.userId)

\* The followers of a user who is followed and follows no one have been read.
C36_Witness ==
  /\ resp.op = "getFollowers"
  /\ resp.body # EmptyBag
  /\ FollowingQuery(resp.args.userId) = EmptyBag

\* C37: the feed getFeed(X) returns holds no post that X posted, and
\* neither getFollowers(X) nor getFollowing(X) lists X.
C37_NeverOneself ==
  /\ resp.op = "getFeed" =>
       \A i \in 1..Len(resp.body) : ~BagIn(<<resp.args.userId, resp.body[i].id>>, posted)
  /\ resp.op \in {"getFollowers", "getFollowing"} =>
       \A row \in BagToSet(resp.body) : row.id # resp.args.userId
  /\ \A x \in Users :
       /\ ~BagIn(WithoutPassword(x), FollowersQuery(x.id))
       /\ ~BagIn(WithoutPassword(x), FollowingQuery(x.id))

\* A user who has posted has read a feed with a post in it.
C37_Witness ==
  /\ resp.op = "getFeed"
  /\ Len(resp.body) >= 1
  /\ \E q \in posts : BagIn(<<resp.args.userId, q.id>>, posted)

\* C38: a feed and a user's posts show each post once, a list of followers
\* or of followed users shows each user once, and the likesCount a feed
\* shows for a post is the one getPostById returns for it in that state.
C38_NoDuplicates ==
  /\ resp.op \in {"getFeed", "getUserPosts"} =>
       Cardinality({resp.body[i].id : i \in 1..Len(resp.body)}) = Len(resp.body)
  /\ resp.op \in {"getFollowers", "getFollowing"} =>
       /\ \A row \in BagToSet(resp.body) : CopiesIn(row, resp.body) = 1
       /\ Cardinality({row.id : row \in BagToSet(resp.body)})
            = Cardinality(BagToSet(resp.body))
  /\ resp.op = "getFeed" =>
       \A i \in 1..Len(resp.body) :
         LET records == PostViews(PostByIdQuery(resp.body[i].id, "asc"))
         IN Len(records) = 1 /\ records[1].likesCount = resp.body[i].likesCount

\* A feed with a post that someone likes has been read.
C38_Witness ==
  /\ resp.op = "getFeed"
  /\ \E i \in 1..Len(resp.body) : resp.body[i].likesCount >= 1

\* Every relationship of the bag other than e is there after the step as
\* often as before it.
OthersKept(rels, after, e) ==
  \A x \in (BagToSet(rels) \cup BagToSet(after)) \ {e} : CopiesIn(x, after) = CopiesIn(x, rels)

\* C39: a follow or unfollow of B by A changes at most the FOLLOWS A->B: it
\* leaves every other FOLLOWS, the reverse B->A among them, every LIKES and
\* POSTED, every account and every post as they were; a like or unlike of P
\* by U changes at most the LIKES U->P and leaves the rest likewise.  A
\* follow's check, which answers nothing yet, writes nothing.
C39_OneEdgeOnly ==
  /\ [][resp'.op \in {"followUser", "unfollowUser"} =>
          /\ OthersKept(follows, follows', EdgeOf(resp'))
          /\ <<accounts, posts, posted, likes>>' = <<accounts, posts, posted, likes>>]_vars
  /\ [][resp'.op \in {"likePost", "unlikePost"} =>
          /\ OthersKept(likes, likes', LikeOf(resp'))
          /\ <<accounts, posts, posted, follows>>' = <<accounts, posts, posted, follows>>]_vars
  /\ [][resp'.op = "none" => store' = store]_vars

\* An unfollow has been answered, the reverse FOLLOWS is still there, and
\* there are likes in the store.
C39_Witness ==
  /\ resp.op = "unfollowUser"
  /\ BagIn(<<resp.args.targetUserId, resp.args.userId>>, follows)
  /\ likes # EmptyBag

====
